---- MODULE Spec2Model ----
(***************************************************************************)
(* Model of the dali_center integration's bus-scan reconciliation          *)
(* (custom_components/dali_center/__init__.py, button.py).                 *)
(*                                                                         *)
(* One gateway / config entry.  The gateway client, the persistent         *)
(* notification service, the device registry and the dispatcher are the    *)
(* host's; they are modelled by what the integration's calls do to them.  *)
(* Every action is one run of a coroutine between two suspension points    *)
(* of the single-threaded event loop.                                      *)
(***************************************************************************)
EXTENDS Naturals, Sequences, FiniteSets, TLC

Last(seq) == seq[Len(seq)]

\* ------------------------------------------------------------------ bounds
MaxInitLen == 2        \* longest device list discovered at setup
MaxScanLen == 2        \* longest scan result the gateway returns

DevIds == {"A", "B", "C"}          \* the dev_id strings on the bus
ScanTasks == <<"t1", "t2">>        \* invocations of _async_do_bus_scan, in start order
StopTasks == <<"s1">>              \* invocations of _async_do_stop_scan

ScanTaskSet == {ScanTasks[i] : i \in DOMAIN ScanTasks}
StopTaskSet == {StopTasks[i] : i \in DOMAIN StopTasks}
Tasks == ScanTaskSet \cup StopTaskSet

\* The exception classes gateway.scan_bus is seen to raise, each with its
\* base classes (Python's builtin hierarchy; DaliGatewayError is the SDK's).
ExcClasses == {"TimeoutError", "DaliGatewayError", "RuntimeError"}
Bases(exc) ==
    CASE exc = "TimeoutError"     -> {"TimeoutError", "OSError", "Exception"}
      [] exc = "DaliGatewayError" -> {"DaliGatewayError", "Exception"}
      [] exc = "RuntimeError"     -> {"RuntimeError", "Exception"}
      [] OTHER                    -> {exc}

\* ------------------------------------------------------------------ values
\* A Device object: its dev_id and the object's identity (obj 0: built by
\* discovery at setup; obj k: built by the k-th scan).
Device(id, obj) == [dev_id |-> id, obj |-> obj]

SeqsUpTo(S, n) == UNION {[1..k -> S] : k \in 0..n}

Ids(devs) == {devs[i].dev_id : i \in DOMAIN devs}

NoDup(devs) == \A i, j \in DOMAIN devs : devs[i].dev_id = devs[j].dev_id => i = j

TaskIndex(t) == CHOOSE i \in DOMAIN ScanTasks : ScanTasks[i] = t

\* What gateway.scan_bus may return to invocation t: any sequence of freshly
\* built Device objects (the gateway is a black box; repeats are not excluded).
ScanResults(t) == SeqsUpTo({Device(id, TaskIndex(t)) : id \in DevIds}, MaxScanLen)

\* One call made on a host service, as recorded per invocation.
Ev(op, devs, nums) == [op |-> op, devs |-> devs, nums |-> nums]

NoRun == [outcome |-> "none", exc |-> "none", exit |-> "none",
          scan_result |-> <<>>, existing |-> <<>>, after |-> <<>>,
          reg_before |-> {}, reg_after |-> {}, notes_after |-> <<>>]

VARIABLES
    devices,        \* entry.runtime_data.devices (the mutable device list)
    registry,       \* dev_ids that have a device-registry entry (DOMAIN, dev_id)
    notifications,  \* the host's persistent notifications: notification_id -> content
    bus_scanning,   \* gateway.bus_scanning: kept by the gateway client, TRUE from
                    \* a scan_bus call until a scan call has returned or raised
    scan_btn,       \* last state written for the Scan Bus button (TRUE: available)
    stop_btn,       \* last state written for the Stop Scan button (TRUE: available)
    pc,             \* position of each invocation
    log,            \* the host calls each invocation has made, in order
    run,            \* per scan invocation: what the scan call gave and what it saw
    \* -- scan_bus / stop_scan service handlers (one service call)
    svc_call,       \* the ServiceCall: which service, and call.data["device_id"]
    svc_i,          \* how many device ids the handler's loop has dealt with
    svc_pc,         \* "resolving" | "in_routine" (awaiting the routine) | "done"
    svc_log,        \* what the handler did, in order
    \* -- async_setup_entry (several config entries set up concurrently)
    setup,          \* per config entry: position and what the setup has done
    sem,            \* _SETUP_SEMAPHORE: [value, waiters]
    services,       \* hass.services.has_service(DOMAIN, "scan_bus")
    \* -- DaliCenterConfigFlow (several flows in progress)
    flow,           \* per flow: position, self._gateways, errors shown
    config_entries, \* gw serial numbers of hass.config_entries.async_entries(DOMAIN)
    \* -- GatewayAvailabilityMixin (one entity)
    gateway_available,  \* self._gateway_available
    device_available,   \* self._device_available
    attr_available,     \* self._attr_available
    mixin_log,          \* the availability events handled, each with its effect
    \* -- OptionsFlowHandler (one options flow)
    opt_step,                    \* step_id of the form shown, or "finished"
    pending_batch_config,        \* self._pending_batch_config
    batch_config_executed,       \* self._batch_config_executed
    batch_config_result_message, \* self._batch_config_result_message (is it set)
    opt_log                      \* forms shown and gateway commands sent, in order

vars == <<devices, registry, notifications, bus_scanning, scan_btn, stop_btn,
          pc, log, run>>

svcVars == <<svc_call, svc_i, svc_pc, svc_log>>
setupVars == <<setup, sem, services>>
flowVars == <<flow, config_entries>>
mixinVars == <<gateway_available, device_available, attr_available, mixin_log>>
optVars == <<opt_step, pending_batch_config, batch_config_executed,
             batch_config_result_message, opt_log>>

\* Each specification below runs one part of the integration; the variables of
\* the other parts stay at these values.
ScanOff ==
    /\ devices = <<>> /\ registry = {} /\ notifications = <<>>
    /\ bus_scanning = FALSE /\ scan_btn = TRUE /\ stop_btn = FALSE
    /\ pc = <<>> /\ log = <<>> /\ run = <<>>

SvcOff == svc_call = <<>> /\ svc_i = 0 /\ svc_pc = "off" /\ svc_log = <<>>

SetupOff == setup = <<>> /\ sem = <<>> /\ services = FALSE

FlowOff == flow = <<>> /\ config_entries = <<>>

MixinOff ==
    /\ gateway_available = TRUE /\ device_available = TRUE
    /\ attr_available = TRUE /\ mixin_log = <<>>

\* _pending_batch_config is None
NoPending == [is_none |-> TRUE, devices |-> {}, params |-> [k \in {} |-> 0]]

OptOff ==
    /\ opt_step = "off" /\ pending_batch_config = NoPending
    /\ batch_config_executed = FALSE /\ batch_config_result_message = FALSE
    /\ opt_log = <<>>

\* ------------------------------------------------------------------ notifications
NoNotification == [kind |-> "none", nums |-> <<>>]
Notification(kind, nums) == [kind |-> kind, nums |-> nums]

Domain == "dali_center"            \* const.DOMAIN
GwSn == "gw_sn_123"                \* gateway.gw_sn of the one gateway

\* notification_id = f"{DOMAIN}_scan_{gw_sn}" in _async_do_bus_scan
ScanNotificationId(gw_sn) == <<Domain, "scan", gw_sn>>

\* The stop routine naming its notification after itself.
StopNotificationId_StopScan(gw_sn) == <<Domain, "stop_scan", gw_sn>>

\* notification_id = f"{DOMAIN}_scan_{gateway.gw_sn}" in _async_do_stop_scan
StopNotificationId(gw_sn) == <<Domain, "scan", gw_sn>>

\* persistent_notification.async_create: a notification under an id in use
\* replaces the one shown there.
AsyncCreate(store, id, note) ==
    [i \in (DOMAIN store) \cup {id} |-> IF i = id THEN note ELSE store[i]]

\* persistent_notification.async_dismiss: nothing happens when the id is not in use.
AsyncDismiss(store, id) == [i \in (DOMAIN store) \ {id} |-> store[i]]

\* What is shown under an id.
NotificationAt(store, id) == IF id \in DOMAIN store THEN store[id] ELSE NoNotification

\* Leave `note` under the id: created, or dismissed when it is NoNotification.
PutNotification(store, id, note) ==
    IF note = NoNotification THEN AsyncDismiss(store, id) ELSE AsyncCreate(store, id, note)

\* ------------------------------------------------------------------ buttons
\* DaliCenterScanBusButton.available
ScanBusAvailable(scanning) == ~scanning

\* The Stop Scan button given the Scan Bus button's test.
StopScanAvailable_Inverted(scanning) == ~scanning

\* DaliCenterStopScanButton.available
StopScanAvailable(scanning) == scanning


\* ------------------------------------------------------------------ the diff
\* Every scanned device taken as new, whatever the list holds.
NewDeviceIds_AllScanned(scan_result, existing) == Ids(scan_result)

\* scanned_ids - existing_ids
NewDeviceIds(scan_result, existing) == Ids(scan_result) \ Ids(existing)

\* The difference taken with its operands the wrong way round.
RemovedDeviceIds_OperandsSwapped(scan_result, existing) == Ids(scan_result) \ Ids(existing)

\* existing_ids - scanned_ids
RemovedDeviceIds(scan_result, existing) == Ids(existing) \ Ids(scan_result)

\* [dev for dev in scan_result if dev.dev_id in new_device_ids]
NewDevices(scan_result, existing) ==
    SelectSeq(scan_result, LAMBDA dev : dev.dev_id \in NewDeviceIds(scan_result, existing))

\* [dev for dev in existing_devices if dev.dev_id in removed_device_ids]
RemovedDevices(scan_result, existing) ==
    SelectSeq(existing, LAMBDA dev : dev.dev_id \in RemovedDeviceIds(scan_result, existing))

\* Removal by position, "del list[index]" with index -1 when dev is not found:
\* an absent device takes the last element with it.
ListRemove_DeleteAtIndexOrLast(list, dev) ==
    IF \E i \in DOMAIN list : list[i] = dev
    THEN LET i == CHOOSE k \in DOMAIN list :
                      /\ list[k] = dev
                      /\ \A j \in 1..(k - 1) : list[j] # dev
         IN  SubSeq(list, 1, i - 1) \o SubSeq(list, i + 1, Len(list))
    ELSE SubSeq(list, 1, Len(list) - 1)

\* with contextlib.suppress(ValueError): existing_devices.remove(dev)
\* list.remove deletes the first element equal to dev; absent: ValueError, suppressed.
ListRemove(list, dev) ==
    IF \E i \in DOMAIN list : list[i] = dev
    THEN LET i == CHOOSE k \in DOMAIN list :
                      /\ list[k] = dev
                      /\ \A j \in 1..(k - 1) : list[j] # dev
         IN  SubSeq(list, 1, i - 1) \o SubSeq(list, i + 1, Len(list))
    ELSE list

\* The add-entities signal sent without the "if new_devices" test.
HandleNewDevices_AlwaysDispatch(existing, new_devices) ==
    [devices |-> existing \o new_devices,
     events  |-> <<Ev("add_entities", new_devices, <<>>)>>]

\* New devices put in front of the list instead of appended.
HandleNewDevices_Prepend(existing, new_devices) ==
    IF new_devices # <<>>
    THEN [devices |-> new_devices \o existing,
          events  |-> <<Ev("add_entities", new_devices, <<>>)>>]
    ELSE [devices |-> existing, events |-> <<>>]

\* if new_devices: existing_devices.extend(new_devices); async_dispatcher_send(add entities)
HandleNewDevices(existing, new_devices) ==
    IF new_devices # <<>>
    THEN [devices |-> existing \o new_devices,
          events  |-> <<Ev("add_entities", new_devices, <<>>)>>]
    ELSE [devices |-> existing, events |-> <<>>]

\* _remove_devices without the "if device_entry" test: the registry removal is
\* called for every removed device.
RECURSIVE RemoveDevices_NoLookup(_, _, _)
RemoveDevices_NoLookup(list, reg, removed_devices) ==
    IF removed_devices = <<>>
    THEN [devices |-> list, registry |-> reg, events |-> <<>>]
    ELSE LET dev   == Head(removed_devices)
             rest  == RemoveDevices_NoLookup(ListRemove(list, dev), reg \ {dev.dev_id},
                                             Tail(removed_devices))
         IN  [devices  |-> rest.devices,
              registry |-> rest.registry,
              events   |-> <<Ev("reg_remove", <<dev>>, <<>>)>> \o rest.events]

\* _remove_devices: for each removed device, drop it from the list, then
\* delete its device-registry entry when the registry has one.
RECURSIVE RemoveDevices(_, _, _)
RemoveDevices(list, reg, removed_devices) ==
    IF removed_devices = <<>>
    THEN [devices |-> list, registry |-> reg, events |-> <<>>]
    ELSE LET dev   == Head(removed_devices)
             found == dev.dev_id \in reg
             rest  == RemoveDevices(ListRemove(list, dev), reg \ {dev.dev_id},
                                    Tail(removed_devices))
         IN  [devices  |-> rest.devices,
              registry |-> rest.registry,
              events   |-> (IF found THEN <<Ev("reg_remove", <<dev>>, <<>>)>> ELSE <<>>)
                           \o rest.events]

\* if removed_devices: _remove_devices(hass, entry, removed_devices)
HandleRemovedDevices(list, reg, removed_devices) ==
    IF removed_devices # <<>>
    THEN RemoveDevices(list, reg, removed_devices)
    ELSE [devices |-> list, registry |-> reg, events |-> <<>>]

\* "unchanged" reported as the number of scanned ids, the subtraction forgotten.
CompleteCounts_UnchangedIsScanned(scan_result, existing) ==
    << Len(NewDevices(scan_result, existing)),
       Len(RemovedDevices(scan_result, existing)),
       Cardinality(Ids(scan_result)) >>

\* The three numbers of "Scan complete: {} added, {} removed, {} unchanged."
CompleteCounts(scan_result, existing) ==
    << Len(NewDevices(scan_result, existing)),
       Len(RemovedDevices(scan_result, existing)),
       Cardinality(Ids(scan_result)) - Cardinality(NewDeviceIds(scan_result, existing)) >>

\* An empty scan result taken as "nothing to do".
Reconcile_SkipsEmptyResult(scan_result, existing, reg) ==
    LET new_devices     == NewDevices(scan_result, existing)
        removed_devices == RemovedDevices(scan_result, existing)
        added           == HandleNewDevices(existing, new_devices)
        removed         == HandleRemovedDevices(added.devices, reg, removed_devices)
        counts          == CompleteCounts(scan_result, existing)
    IN  IF scan_result = <<>>
        THEN [devices |-> existing, registry |-> reg,
              notification |-> Notification("complete", <<0, 0, 0>>),
              events |-> <<Ev("notify_complete", <<>>, <<0, 0, 0>>)>>]
        ELSE [devices      |-> removed.devices,
              registry     |-> removed.registry,
              notification |-> Notification("complete", counts),
              events       |-> added.events \o removed.events
                               \o <<Ev("notify_complete", <<>>, counts)>>]

\* Lines 292-324: the diff and its application, run without suspension.
Reconcile(scan_result, existing, reg) ==
    LET new_devices     == NewDevices(scan_result, existing)
        removed_devices == RemovedDevices(scan_result, existing)
        added           == HandleNewDevices(existing, new_devices)
        removed         == HandleRemovedDevices(added.devices, reg, removed_devices)
        counts          == CompleteCounts(scan_result, existing)
    IN  [devices      |-> removed.devices,
         registry     |-> removed.registry,
         notification |-> Notification("complete", counts),
         events       |-> added.events \o removed.events
                          \o <<Ev("notify_complete", <<>>, counts)>>]

\* ------------------------------------------------------------------ try / except / finally
\* A try statement without its finally-block.
FinallyEvents_None == <<>>

\* finally: async_dispatcher_send(scan state, False)
FinallyEvents == <<Ev("scan_state_false", <<>>, <<>>)>>

\* "except Exception" written before "except TimeoutError".
ExceptClause_GenericFirst(exc) ==
    IF "Exception" \in Bases(exc) THEN "generic"
    ELSE IF "TimeoutError" \in Bases(exc) THEN "timeout"
    ELSE "propagate"

\* "except DaliGatewayError" written in place of "except Exception".
ExceptClause_OnlyGatewayError(exc) ==
    IF "TimeoutError" \in Bases(exc) THEN "timeout"
    ELSE IF "DaliGatewayError" \in Bases(exc) THEN "generic"
    ELSE "propagate"

\* Which except clause of the try statement takes an exception of class exc:
\* the clauses are tried in order, "except TimeoutError" then "except Exception".
ExceptClause(exc) ==
    IF "TimeoutError" \in Bases(exc) THEN "timeout"
    ELSE IF "Exception" \in Bases(exc) THEN "generic"
    ELSE "propagate"

\* The scanning = False broadcast placed after the try statement instead of in
\* a finally-block: the early returns of the except clauses skip it.
FailureEffects_NoFinally(exc, notif) ==
    CASE ExceptClause(exc) = "timeout" ->
            [notification |-> Notification("timeout", <<>>),
             events |-> <<Ev("notify_timeout", <<>>, <<>>)>>,
             exit |-> "returned"]
      [] ExceptClause(exc) = "generic" ->
            [notification |-> NoNotification,
             events |-> <<Ev("dismiss", <<>>, <<>>)>>,
             exit |-> "returned"]
      [] OTHER ->
            [notification |-> notif, events |-> <<>>, exit |-> "raised"]

\* The timeout clause dismissing, like the generic clause, instead of notifying.
FailureEffects_TimeoutDismisses(exc, notif) ==
    CASE ExceptClause(exc) \in {"timeout", "generic"} ->
            [notification |-> NoNotification,
             events |-> <<Ev("dismiss", <<>>, <<>>)>> \o FinallyEvents,
             exit |-> "returned"]
      [] OTHER ->
            [notification |-> notif, events |-> FinallyEvents, exit |-> "raised"]

\* The generic clause only logging: the "scanning" notification stays.
FailureEffects_GenericKeepsNotification(exc, notif) ==
    CASE ExceptClause(exc) = "timeout" ->
            [notification |-> Notification("timeout", <<>>),
             events |-> <<Ev("notify_timeout", <<>>, <<>>)>> \o FinallyEvents,
             exit |-> "returned"]
      [] ExceptClause(exc) = "generic" ->
            [notification |-> notif, events |-> FinallyEvents, exit |-> "returned"]
      [] OTHER ->
            [notification |-> notif, events |-> FinallyEvents, exit |-> "raised"]

\* What the failure path does, given the notification shown so far.
FailureEffects(exc, notif) ==
    CASE ExceptClause(exc) = "timeout" ->
            [notification |-> Notification("timeout", <<>>),
             events |-> <<Ev("notify_timeout", <<>>, <<>>)>> \o FinallyEvents,
             exit |-> "returned"]
      [] ExceptClause(exc) = "generic" ->
            [notification |-> NoNotification,
             events |-> <<Ev("dismiss", <<>>, <<>>)>> \o FinallyEvents,
             exit |-> "returned"]
      [] OTHER ->
            [notification |-> notif,
             events |-> FinallyEvents,
             exit |-> "raised"]

\* ------------------------------------------------------------------ Init
InitDeviceLists ==
    {devs \in SeqsUpTo({Device(id, 0) : id \in DevIds}, MaxInitLen) : NoDup(devs)}

Init ==
    /\ devices \in InitDeviceLists
    /\ registry \in SUBSET Ids(devices)
    /\ notifications = <<>>
    /\ bus_scanning = FALSE
    /\ scan_btn = ScanBusAvailable(FALSE)
    /\ stop_btn = StopScanAvailable(FALSE)
    /\ pc = [t \in Tasks |-> "idle"]
    /\ log = [t \in Tasks |-> <<>>]
    /\ run = [t \in ScanTaskSet |-> NoRun]
    /\ SvcOff /\ SetupOff /\ FlowOff /\ MixinOff /\ OptOff

\* ------------------------------------------------------------------ _async_do_bus_scan
\* Invocations are numbered in the order they start.
NextToStart(t) ==
    /\ pc[t] = "idle"
    /\ \A i \in 1..(TaskIndex(t) - 1) : pc[ScanTasks[i]] # "idle"

\* The host calls of lines 262-274, in order.
BeginEvents ==
    << Ev("notify_scanning", <<>>, <<>>),
       Ev("scan_state_true", <<>>, <<>>),
       Ev("scan_bus", <<>>, <<>>) >>

\* A begin step that empties the device list before the scan repopulates it.
DoBusScanBegin_ClearsList(t) ==
    /\ NextToStart(t)
    /\ notifications' = AsyncCreate(notifications, ScanNotificationId(GwSn),
                                    Notification("scanning", <<>>))
    /\ scan_btn' = ScanBusAvailable(bus_scanning)
    /\ stop_btn' = StopScanAvailable(bus_scanning)
    /\ bus_scanning' = TRUE
    /\ log' = [log EXCEPT ![t] = BeginEvents]
    /\ pc' = [pc EXCEPT ![t] = "awaiting"]
    /\ devices' = <<>>
    /\ UNCHANGED <<registry, run>>

\* Lines 258-274: show the "scanning" notification, broadcast scanning = True
\* (both buttons write their state on it, reading gateway.bus_scanning as it
\* is before the scan call), call gateway.scan_bus and suspend.
DoBusScanBegin(t) ==
    /\ NextToStart(t)
    /\ notifications' = AsyncCreate(notifications, ScanNotificationId(GwSn),
                                    Notification("scanning", <<>>))
    /\ scan_btn' = ScanBusAvailable(bus_scanning)
    /\ stop_btn' = StopScanAvailable(bus_scanning)
    /\ bus_scanning' = TRUE
    /\ log' = [log EXCEPT ![t] = BeginEvents]
    /\ pc' = [pc EXCEPT ![t] = "awaiting"]
    /\ UNCHANGED <<devices, registry, run>>

\* DaliCenterScanBusButton.async_press: the host presses only an available
\* button; the task is started at once and runs up to the scan call.
PressScanBus(t) ==
    /\ ScanBusAvailable(bus_scanning)
    /\ DoBusScanBegin(t)
    /\ UNCHANGED <<svcVars, setupVars, flowVars, mixinVars, optVars>>

\* async_handle_scan_bus: awaits the routine directly, whatever the scan state.
ServiceScanBus(t) ==
    /\ pc[t] = "idle"
    /\ DoBusScanBegin(t)
    /\ UNCHANGED <<svcVars, setupVars, flowVars, mixinVars, optVars>>

\* The finally-block placed after the diff: scanning = False broadcast last.
ScanReturns_FinallyLast(t) ==
    /\ pc[t] = "awaiting"
    /\ \E scan_result \in ScanResults(t) :
          LET rec == Reconcile(scan_result, devices, registry)
          IN  /\ devices' = rec.devices
              /\ registry' = rec.registry
              /\ notifications' = AsyncCreate(notifications, ScanNotificationId(GwSn),
                                              rec.notification)
              /\ log' = [log EXCEPT ![t] = @ \o rec.events \o FinallyEvents]
              /\ run' = [run EXCEPT ![t] =
                            [outcome |-> "ok", exc |-> "none", exit |-> "returned",
                             scan_result |-> scan_result, existing |-> devices,
                             after |-> devices',
                             reg_before |-> registry, reg_after |-> registry',
                             notes_after |-> notifications']]
    /\ bus_scanning' = FALSE
    /\ scan_btn' = ScanBusAvailable(FALSE)
    /\ stop_btn' = StopScanAvailable(FALSE)
    /\ pc' = [pc EXCEPT ![t] = "done"]
    /\ UNCHANGED <<svcVars, setupVars, flowVars, mixinVars, optVars>>

\* The scan call returns scan_result: finally-block, then lines 292-324.
ScanReturns(t) ==
    /\ pc[t] = "awaiting"
    /\ \E scan_result \in ScanResults(t) :
          LET rec == Reconcile(scan_result, devices, registry)
          IN  /\ devices' = rec.devices
              /\ registry' = rec.registry
              /\ notifications' = AsyncCreate(notifications, ScanNotificationId(GwSn),
                                              rec.notification)
              /\ log' = [log EXCEPT ![t] = @ \o FinallyEvents \o rec.events]
              /\ run' = [run EXCEPT ![t] =
                            [outcome |-> "ok", exc |-> "none", exit |-> "returned",
                             scan_result |-> scan_result, existing |-> devices,
                             after |-> devices',
                             reg_before |-> registry, reg_after |-> registry',
                             notes_after |-> notifications']]
    /\ bus_scanning' = FALSE
    /\ scan_btn' = ScanBusAvailable(FALSE)
    /\ stop_btn' = StopScanAvailable(FALSE)
    /\ pc' = [pc EXCEPT ![t] = "done"]
    /\ UNCHANGED <<svcVars, setupVars, flowVars, mixinVars, optVars>>

\* A failure path that treats the failed scan as an empty result and applies it.
ScanFails_AppliesEmptyResult(t) ==
    /\ pc[t] = "awaiting"
    /\ \E exc \in ExcClasses :
          LET eff == FailureEffects(exc, NotificationAt(notifications,
                                                        ScanNotificationId(GwSn)))
              rec == Reconcile(<<>>, devices, registry)
          IN  /\ devices' = rec.devices
              /\ registry' = rec.registry
              /\ notifications' = PutNotification(notifications, ScanNotificationId(GwSn),
                                                  eff.notification)
              /\ log' = [log EXCEPT ![t] = @ \o eff.events \o rec.events]
              /\ run' = [run EXCEPT ![t] =
                            [outcome |-> ExceptClause(exc), exc |-> exc,
                             exit |-> eff.exit,
                             scan_result |-> <<>>, existing |-> devices,
                             after |-> devices',
                             reg_before |-> registry, reg_after |-> registry',
                             notes_after |-> notifications']]
    /\ bus_scanning' = FALSE
    /\ scan_btn' = ScanBusAvailable(FALSE)
    /\ stop_btn' = StopScanAvailable(FALSE)
    /\ pc' = [pc EXCEPT ![t] = "done"]
    /\ UNCHANGED <<svcVars, setupVars, flowVars, mixinVars, optVars>>

\* The scan call raises: the matching except clause, then the finally-block.
ScanFails(t) ==
    /\ pc[t] = "awaiting"
    /\ UNCHANGED <<devices, registry>>
    /\ \E exc \in ExcClasses :
          LET eff == FailureEffects(exc, NotificationAt(notifications,
                                                        ScanNotificationId(GwSn)))
          IN  /\ notifications' = PutNotification(notifications, ScanNotificationId(GwSn),
                                                  eff.notification)
              /\ log' = [log EXCEPT ![t] = @ \o eff.events]
              /\ run' = [run EXCEPT ![t] =
                            [outcome |-> ExceptClause(exc), exc |-> exc,
                             exit |-> eff.exit,
                             scan_result |-> <<>>, existing |-> devices,
                             after |-> devices',
                             reg_before |-> registry, reg_after |-> registry',
                             notes_after |-> notifications']]
    /\ bus_scanning' = FALSE
    /\ scan_btn' = ScanBusAvailable(FALSE)
    /\ stop_btn' = StopScanAvailable(FALSE)
    /\ pc' = [pc EXCEPT ![t] = "done"]
    /\ UNCHANGED <<svcVars, setupVars, flowVars, mixinVars, optVars>>

\* ------------------------------------------------------------------ _async_do_stop_scan
\* The stop routine without its "if not gateway.bus_scanning: return".
DoStopScanBegin_NoGuard(s) ==
    /\ pc[s] = "idle"
    /\ pc' = [pc EXCEPT ![s] = "stopping"]
    /\ log' = [log EXCEPT ![s] = <<Ev("stop_scan", <<>>, <<>>)>>]
    /\ UNCHANGED <<devices, registry, notifications, bus_scanning,
                   scan_btn, stop_btn, run>>

\* Lines 358-364: return at once when no scan is in progress, else call
\* gateway.stop_scan and suspend.
DoStopScanBegin(s) ==
    /\ pc[s] = "idle"
    /\ IF ~bus_scanning
       THEN /\ pc' = [pc EXCEPT ![s] = "done"]
            /\ UNCHANGED log
       ELSE /\ pc' = [pc EXCEPT ![s] = "stopping"]
            /\ log' = [log EXCEPT ![s] = <<Ev("stop_scan", <<>>, <<>>)>>]
    /\ UNCHANGED <<devices, registry, notifications, bus_scanning,
                   scan_btn, stop_btn, run>>

\* DaliCenterStopScanButton.async_press (pressed only while available).
PressStopScan(s) ==
    /\ StopScanAvailable(bus_scanning)
    /\ DoStopScanBegin(s)
    /\ UNCHANGED <<svcVars, setupVars, flowVars, mixinVars, optVars>>

\* async_handle_stop_scan.
ServiceStopScan(s) ==
    /\ pc[s] = "idle"
    /\ DoStopScanBegin(s)
    /\ UNCHANGED <<svcVars, setupVars, flowVars, mixinVars, optVars>>

\* A stop routine that also announces scanning = False itself.
StopScanReturns_BroadcastsFalse(s) ==
    /\ pc[s] = "stopping"
    /\ notifications' = AsyncDismiss(notifications, StopNotificationId(GwSn))
    /\ log' = [log EXCEPT ![s] = @ \o <<Ev("dismiss", <<>>, <<>>),
                                       Ev("scan_state_false", <<>>, <<>>)>>]
    /\ scan_btn' = ScanBusAvailable(bus_scanning)
    /\ stop_btn' = StopScanAvailable(bus_scanning)
    /\ pc' = [pc EXCEPT ![s] = "done"]
    /\ UNCHANGED <<devices, registry, bus_scanning, run>>
    /\ UNCHANGED <<svcVars, setupVars, flowVars, mixinVars, optVars>>

\* Lines 366-368: stop_scan has returned; dismiss the scan notification.
StopScanReturns(s) ==
    /\ pc[s] = "stopping"
    /\ notifications' = AsyncDismiss(notifications, StopNotificationId(GwSn))
    /\ log' = [log EXCEPT ![s] = @ \o <<Ev("dismiss", <<>>, <<>>)>>]
    /\ pc' = [pc EXCEPT ![s] = "done"]
    /\ UNCHANGED <<devices, registry, bus_scanning, scan_btn, stop_btn, run>>
    /\ UNCHANGED <<svcVars, setupVars, flowVars, mixinVars, optVars>>

\* ------------------------------------------------------------------ specification
Next ==
    \/ \E t \in ScanTaskSet : PressScanBus(t)
    \/ \E t \in ScanTaskSet : ServiceScanBus(t)
    \/ \E t \in ScanTaskSet : ScanReturns(t)
    \/ \E t \in ScanTaskSet : ScanFails(t)
    \/ \E s \in StopTaskSet : PressStopScan(s)
    \/ \E s \in StopTaskSet : ServiceStopScan(s)
    \/ \E s \in StopTaskSet : StopScanReturns(s)

Spec == Init /\ [][Next]_vars

\* The event loop runs every ready task: a scan call that has resolved is
\* resumed, and the gateway's scan call always returns or raises.
ScanCallCompletes(t) == ScanFails(t) \/ ScanReturns(t)

\* Liveness does not depend on which devices are known: it is checked from
\* one setup, two discovered devices of which one has a registry entry.
LiveInit ==
    /\ Init
    /\ devices = <<Device("A", 0), Device("B", 0)>>
    /\ registry = {"A"}

FairSpec ==
    /\ LiveInit
    /\ [][Next]_vars
    /\ \A t \in ScanTaskSet : WF_vars(ScanCallCompletes(t))

\* ------------------------------------------------------------------ services
MaxIds == 3            \* most device ids in one service call

\* The host's device registry: device id -> device.config_entries.
DeviceRegistry ==
    [d \in {"dev_gw1", "dev_gw2", "dev_hue", "dev_shared", "dev_stale"} |->
        CASE d = "dev_gw1"    -> <<"entry_gw1">>
          [] d = "dev_gw2"    -> <<"entry_gw2">>
          [] d = "dev_hue"    -> <<"entry_hue">>
          [] d = "dev_shared" -> <<"entry_hue", "entry_gw1">>
          [] d = "dev_stale"  -> <<"entry_removed">>]

\* The host's config entries: entry id -> entry.domain ("entry_removed" is gone).
ConfigEntryDomains ==
    [e \in {"entry_gw1", "entry_gw2", "entry_hue"} |->
        IF e = "entry_hue" THEN "hue" ELSE Domain]

\* The device ids a caller may pass; "dev_unknown" is not in the registry.
ServiceDeviceIds == DOMAIN DeviceRegistry \cup {"dev_unknown"}

NoEntry == "None"

\* for entry_id in device.config_entries: the first entry that exists and
\* belongs to DOMAIN.
RECURSIVE FirstDomainEntry(_)
FirstDomainEntry(entry_ids) ==
    IF entry_ids = <<>>
    THEN NoEntry
    ELSE LET entry_id == Head(entry_ids)
         IN  IF /\ entry_id \in DOMAIN ConfigEntryDomains
                /\ ConfigEntryDomains[entry_id] = Domain
             THEN entry_id
             ELSE FirstDomainEntry(Tail(entry_ids))

\* The device's first config entry taken without looking at its domain.
ResolveEntryFromDeviceId_AnyEntry(device_id) ==
    IF device_id \notin DOMAIN DeviceRegistry
    THEN NoEntry
    ELSE Head(DeviceRegistry[device_id])

\* _resolve_entry_from_device_id
ResolveEntryFromDeviceId(device_id) ==
    IF device_id \notin DOMAIN DeviceRegistry
    THEN NoEntry
    ELSE FirstDomainEntry(DeviceRegistry[device_id])

\* device_ids = call.data.get("device_id", []); a single string is wrapped.
CallDeviceIds(call) == IF call.is_str THEN <<call.data>> ELSE call.data

RoutineOf(service) ==
    IF service = "scan_bus" THEN "_async_do_bus_scan" ELSE "_async_do_stop_scan"

SvcInit ==
    /\ \E service \in {"scan_bus", "stop_scan"} :
          \/ \E device_id \in ServiceDeviceIds :
                svc_call = [service |-> service, is_str |-> TRUE, data |-> device_id]
          \/ \E device_ids \in SeqsUpTo(ServiceDeviceIds, MaxIds) :
                svc_call = [service |-> service, is_str |-> FALSE, data |-> device_ids]
    /\ svc_i = 0
    /\ svc_pc = "resolving"
    /\ svc_log = <<>>
    /\ ScanOff /\ SetupOff /\ FlowOff /\ MixinOff /\ OptOff

\* One pass of "for device_id in device_ids": resolve the id; warn and go on
\* when it resolves to nothing, else call the routine and await it.  The
\* handler returns when the ids are exhausted.
HandleDeviceId(service) ==
    /\ svc_pc = "resolving"
    /\ LET device_ids == CallDeviceIds(svc_call)
       IN  IF svc_i = Len(device_ids)
           THEN /\ svc_pc' = "done"
                /\ UNCHANGED <<svc_i, svc_log>>
           ELSE LET device_id == device_ids[svc_i + 1]
                    entry     == ResolveEntryFromDeviceId(device_id)
                IN  IF entry = NoEntry
                    THEN /\ svc_log' = Append(svc_log, [op |-> "warning",
                                                        device_id |-> device_id,
                                                        entry |-> NoEntry,
                                                        routine |-> "none"])
                         /\ svc_i' = svc_i + 1
                         /\ UNCHANGED svc_pc
                    ELSE /\ svc_log' = Append(svc_log, [op |-> "call",
                                                        device_id |-> device_id,
                                                        entry |-> entry,
                                                        routine |-> RoutineOf(service)])
                         /\ svc_pc' = "in_routine"
                         /\ UNCHANGED svc_i
    /\ UNCHANGED <<svc_call, vars, setupVars, flowVars, mixinVars, optVars>>

\* async_handle_scan_bus
AsyncHandleScanBus ==
    /\ svc_call.service = "scan_bus"
    /\ HandleDeviceId("scan_bus")

\* async_handle_stop_scan
AsyncHandleStopScan ==
    /\ svc_call.service = "stop_scan"
    /\ HandleDeviceId("stop_scan")

\* The awaited routine has returned: the loop goes on to the next id.
RoutineReturns ==
    /\ svc_pc = "in_routine"
    /\ svc_log' = Append(svc_log, [Last(svc_log) EXCEPT !.op = "returned"])
    /\ svc_i' = svc_i + 1
    /\ svc_pc' = "resolving"
    /\ UNCHANGED <<svc_call, vars, setupVars, flowVars, mixinVars, optVars>>

SvcNext ==
    \/ AsyncHandleScanBus
    \/ AsyncHandleStopScan
    \/ RoutineReturns

SvcSpec == SvcInit /\ [][SvcNext]_svcVars

\* ------------------------------------------------------------------ async_setup_entry
SetupEntries == {"e1", "e2", "e3"}     \* the config entries being set up
SetupPermits == 2                      \* asyncio.Semaphore(2)

\* What gateway.connect (under async_timeout.timeout(15)) and the discovery
\* calls are seen to raise; OSError stands for an error no clause catches.
SetupExcClasses == {"DaliGatewayError", "TimeoutError", "OSError"}

NoSetup ==
    [pc |-> "idle", notes |-> <<>>, runtime_data |-> FALSE, gw_device |-> FALSE,
     forwarded |-> FALSE, connected |-> FALSE, failed_at |-> "none",
     exc |-> "none", raised |-> "none"]

\* asyncio.Semaphore.locked(): no permit left, or somebody is queued.
SemLocked(s) == s.value = 0 \/ s.waiters # <<>>

\* asyncio.Semaphore._wake_up_next(): hand a permit to the first waiter whose
\* future is not done yet.
SemWakeUpNext(s) ==
    IF \E i \in DOMAIN s.waiters : ~s.waiters[i].done
    THEN LET i == CHOOSE k \in DOMAIN s.waiters :
                      /\ ~s.waiters[k].done
                      /\ \A j \in 1..(k - 1) : s.waiters[j].done
         IN  [value   |-> s.value - 1,
              waiters |-> [s.waiters EXCEPT ![i].done = TRUE]]
    ELSE s

\* A release that forgets the permit.
SemRelease_KeepsPermit(s) == s

\* asyncio.Semaphore.release(), run when the "async with" block is left.
SemRelease(s) == SemWakeUpNext([s EXCEPT !.value = @ + 1])

\* The except clause of lines 123-142 / 150-159 that takes exc.
SetupExceptClause(stage, exc) ==
    CASE "DaliGatewayError" \in Bases(exc)                     -> "gateway_error"
      [] stage = "connect" /\ "TimeoutError" \in Bases(exc)    -> "timeout"
      [] OTHER                                                 -> "none"

SetupInit ==
    /\ setup = [e \in SetupEntries |-> NoSetup]
    /\ sem = [value |-> SetupPermits, waiters |-> <<>>]
    /\ services = FALSE
    /\ ScanOff /\ SvcOff /\ FlowOff /\ MixinOff /\ OptOff

\* Lines 106-125: build the gateway, enter "async with _SETUP_SEMAPHORE"; with
\* a permit at hand go on to "await gateway.connect()", else queue up.
SetupBegin(e) ==
    /\ setup[e].pc = "idle"
    /\ IF SemLocked(sem)
       THEN /\ sem' = [sem EXCEPT !.waiters = Append(@, [entry |-> e, done |-> FALSE])]
            /\ setup' = [setup EXCEPT ![e].pc = "waiting"]
       ELSE /\ sem' = [sem EXCEPT !.value = @ - 1]
            /\ setup' = [setup EXCEPT ![e].pc = "connecting"]
    /\ UNCHANGED <<services, vars, svcVars, flowVars, mixinVars, optVars>>

\* Semaphore.acquire() resumed with its future done: leave the queue and go
\* on to "await gateway.connect()".
SetupAcquired(e) ==
    /\ setup[e].pc = "waiting"
    /\ \E i \in DOMAIN sem.waiters : sem.waiters[i] = [entry |-> e, done |-> TRUE]
    /\ sem' = [sem EXCEPT !.waiters = SelectSeq(@, LAMBDA w : w.entry # e)]
    /\ setup' = [setup EXCEPT ![e].pc = "connecting"]
    /\ UNCHANGED <<services, vars, svcVars, flowVars, mixinVars, optVars>>

\* gateway.connect() returned: start the three discovery calls and await them.
ConnectReturns(e) ==
    /\ setup[e].pc = "connecting"
    /\ setup' = [setup EXCEPT ![e].pc = "discovering", ![e].connected = TRUE]
    /\ UNCHANGED <<sem, services, vars, svcVars, flowVars, mixinVars, optVars>>

\* gateway.connect() raised or timed out (lines 126-142): notify the user and
\* raise ConfigEntryNotReady; an error no clause takes is raised as it is.
\* Leaving the "async with" block releases the permit.
ConnectFails(e) ==
    /\ setup[e].pc = "connecting"
    /\ \E exc \in SetupExcClasses :
          LET clause == SetupExceptClause("connect", exc)
          IN  setup' = [setup EXCEPT
                  ![e].pc = "failed",
                  ![e].failed_at = "connect",
                  ![e].exc = exc,
                  ![e].notes = IF clause = "gateway_error"
                               THEN Append(@, "Connection Failed")
                               ELSE IF clause = "timeout"
                                    THEN Append(@, "Connection Timeout")
                                    ELSE @,
                  ![e].raised = IF clause = "none" THEN exc ELSE "ConfigEntryNotReady"]
    /\ sem' = SemRelease(sem)
    /\ UNCHANGED <<services, vars, svcVars, flowVars, mixinVars, optVars>>

\* Discovery returned (lines 161-184): the block is left and the permit
\* released, runtime_data is set, the gateway device registered and the
\* platforms' setup awaited.
DiscoverReturns(e) ==
    /\ setup[e].pc = "discovering"
    /\ sem' = SemRelease(sem)
    /\ setup' = [setup EXCEPT ![e].pc = "forwarding",
                              ![e].runtime_data = TRUE,
                              ![e].gw_device = TRUE]
    /\ UNCHANGED <<services, vars, svcVars, flowVars, mixinVars, optVars>>

\* Discovery raised (lines 150-159): for a gateway error notify the user and
\* await gateway.disconnect(), still inside the block; any other error
\* leaves the block as it is.
DiscoverFails(e) ==
    /\ setup[e].pc = "discovering"
    /\ \E exc \in SetupExcClasses :
          IF SetupExceptClause("discover", exc) = "gateway_error"
          THEN /\ setup' = [setup EXCEPT ![e].pc = "disconnecting",
                                         ![e].failed_at = "discover",
                                         ![e].exc = exc,
                                         ![e].notes = Append(@, "Discovery Failed")]
               /\ UNCHANGED sem
          ELSE /\ setup' = [setup EXCEPT ![e].pc = "failed",
                                         ![e].failed_at = "discover",
                                         ![e].exc = exc,
                                         ![e].raised = exc]
               /\ sem' = SemRelease(sem)
    /\ UNCHANGED <<services, vars, svcVars, flowVars, mixinVars, optVars>>

\* gateway.disconnect() returned (lines 156-159): raise ConfigEntryNotReady.
DisconnectReturns(e) ==
    /\ setup[e].pc = "disconnecting"
    /\ setup' = [setup EXCEPT ![e].pc = "failed",
                              ![e].connected = FALSE,
                              ![e].raised = "ConfigEntryNotReady"]
    /\ sem' = SemRelease(sem)
    /\ UNCHANGED <<services, vars, svcVars, flowVars, mixinVars, optVars>>

\* gateway.disconnect() raised its DaliGatewayError (the error
\* async_unload_entry catches around the same call): inside the except clause
\* nothing catches it, so it is what async_setup_entry raises.
DisconnectFails(e) ==
    /\ setup[e].pc = "disconnecting"
    /\ setup' = [setup EXCEPT ![e].pc = "failed",
                              ![e].raised = "DaliGatewayError"]
    /\ sem' = SemRelease(sem)
    /\ UNCHANGED <<services, vars, svcVars, flowVars, mixinVars, optVars>>

\* async_forward_entry_setups returned (lines 186-193): register the services
\* unless they are registered, return True.
ForwardReturns(e) ==
    /\ setup[e].pc = "forwarding"
    /\ setup' = [setup EXCEPT ![e].pc = "loaded", ![e].forwarded = TRUE]
    /\ services' = TRUE
    /\ UNCHANGED <<sem, vars, svcVars, flowVars, mixinVars, optVars>>

SetupNext ==
    \/ \E e \in SetupEntries : SetupBegin(e)
    \/ \E e \in SetupEntries : SetupAcquired(e)
    \/ \E e \in SetupEntries : ConnectReturns(e)
    \/ \E e \in SetupEntries : ConnectFails(e)
    \/ \E e \in SetupEntries : DiscoverReturns(e)
    \/ \E e \in SetupEntries : DiscoverFails(e)
    \/ \E e \in SetupEntries : DisconnectReturns(e)
    \/ \E e \in SetupEntries : DisconnectFails(e)
    \/ \E e \in SetupEntries : ForwardReturns(e)

SetupSpec == SetupInit /\ [][SetupNext]_setupVars

\* A setup inside the guarded section gets out of it: the awaited call
\* returns or raises, and a task whose future is done is resumed.
SetupProceeds(e) ==
    \/ SetupAcquired(e)
    \/ ConnectReturns(e)
    \/ DiscoverReturns(e)
    \/ DisconnectReturns(e)

SetupFair ==
    /\ SetupInit
    /\ [][SetupNext]_setupVars
    /\ \A e \in SetupEntries : WF_setupVars(SetupProceeds(e))

\* ------------------------------------------------------------------ DaliCenterConfigFlow
Flows == {"f1", "f2"}                  \* config flows in progress
GatewaySerials == {"GW1", "GW2"}       \* gateways that answer a discovery
SelectableSerials == GatewaySerials \cup {"GW9"}   \* what a caller may submit

NoFlow == [pc |-> "user_form", gateways |-> <<>>, selected |-> "none", errors |-> "none"]

\* What DaliGatewayDiscovery().discover_gateways() may return.
DiscoveryResults ==
    {found \in SeqsUpTo(GatewaySerials, Cardinality(GatewaySerials)) :
        \A i, j \in DOMAIN found : found[i] = found[j] => i = j}

\* {entry.data[CONF_SERIAL_NUMBER] for entry in async_entries(DOMAIN)}
ConfiguredGateways(entries) == {entries[i] : i \in DOMAIN entries}

\* [gateway for gateway in discovered_gateways if gateway.gw_sn not in configured_gateways]
UnconfiguredGateways(found, entries) ==
    SelectSeq(found, LAMBDA sn : sn \notin ConfiguredGateways(entries))

FlowInit ==
    /\ flow = [f \in Flows |-> NoFlow]
    /\ config_entries \in {<<>>, <<"GW2">>}
    /\ ScanOff /\ SvcOff /\ SetupOff /\ MixinOff /\ OptOff

\* The rest of async_step_discovery once errors are known (lines 603-658):
\* discover when self._gateways is empty, else show the selection form.
FlowShowOrDiscover(f, gateways, errors) ==
    IF gateways = <<>>
    THEN flow' = [flow EXCEPT ![f] = [pc |-> "discovering", gateways |-> <<>>,
                                      selected |-> "none", errors |-> errors]]
    ELSE flow' = [flow EXCEPT ![f] = [pc |-> "form", gateways |-> gateways,
                                      selected |-> "none", errors |-> errors]]

\* async_step_user with input: async_step_discovery(None).
FlowUserSubmit(f) ==
    /\ flow[f].pc = "user_form"
    /\ FlowShowOrDiscover(f, flow[f].gateways, "none")
    /\ UNCHANGED <<config_entries, vars, svcVars, setupVars, mixinVars, optVars>>

\* discover_gateways() returned (lines 624-658): keep the gateways that are
\* not configured now, and show the form (with "no_devices_found" when none
\* is left).
FlowDiscoverReturns(f) ==
    /\ flow[f].pc = "discovering"
    /\ \E found \in DiscoveryResults :
          LET gateways == UnconfiguredGateways(found, config_entries)
          IN  flow' = [flow EXCEPT ![f] =
                          [pc |-> "form", gateways |-> gateways, selected |-> "none",
                           errors |-> IF gateways = <<>> THEN "no_devices_found"
                                      ELSE flow[f].errors]]
    /\ UNCHANGED <<config_entries, vars, svcVars, setupVars, mixinVars, optVars>>

\* discover_gateways() raised DaliGatewayError (lines 606-622).
FlowDiscoverFails(f) ==
    /\ flow[f].pc = "discovering"
    /\ flow' = [flow EXCEPT ![f].pc = "form", ![f].errors = "discovery_failed"]
    /\ UNCHANGED <<config_entries, vars, svcVars, setupVars, mixinVars, optVars>>

\* The discovery form submitted without a selection (lines 553-555): forget
\* the list and discover again.
FlowSubmitEmpty(f) ==
    /\ flow[f].pc = "form"
    /\ FlowShowOrDiscover(f, <<>>, "none")
    /\ UNCHANGED <<config_entries, vars, svcVars, setupVars, mixinVars, optVars>>

\* The discovery form submitted with a selection (lines 557-567, 590-601): a
\* gateway of self._gateways is connected to; any other serial number gives
\* "device_not_found".
FlowSubmitSelection(f) ==
    /\ flow[f].pc = "form"
    /\ \E sn \in SelectableSerials :
          IF \E i \in DOMAIN flow[f].gateways : flow[f].gateways[i] = sn
          THEN flow' = [flow EXCEPT ![f].pc = "connecting", ![f].selected = sn,
                                    ![f].errors = "none"]
          ELSE FlowShowOrDiscover(f, flow[f].gateways, "device_not_found")
    /\ UNCHANGED <<config_entries, vars, svcVars, setupVars, mixinVars, optVars>>

\* await selected_gateway.connect() returned: await its disconnect().
FlowConnectReturns(f) ==
    /\ flow[f].pc = "connecting"
    /\ flow' = [flow EXCEPT ![f].pc = "disconnecting"]
    /\ UNCHANGED <<config_entries, vars, svcVars, setupVars, mixinVars, optVars>>

\* connect() or disconnect() raised DaliGatewayError (lines 584-589): the form
\* again, with "cannot_connect".
FlowConnectFails(f) ==
    /\ flow[f].pc \in {"connecting", "disconnecting"}
    /\ FlowShowOrDiscover(f, flow[f].gateways, "cannot_connect")
    /\ UNCHANGED <<config_entries, vars, svcVars, setupVars, mixinVars, optVars>>

\* disconnect() returned (lines 572-583): async_create_entry with the
\* selected gateway's data; the flow is finished.
FlowCreateEntry(f) ==
    /\ flow[f].pc = "disconnecting"
    /\ config_entries' = Append(config_entries, flow[f].selected)
    /\ flow' = [flow EXCEPT ![f].pc = "created"]
    /\ UNCHANGED <<vars, svcVars, setupVars, mixinVars, optVars>>

FlowNext ==
    \/ \E f \in Flows : FlowUserSubmit(f)
    \/ \E f \in Flows : FlowDiscoverReturns(f)
    \/ \E f \in Flows : FlowDiscoverFails(f)
    \/ \E f \in Flows : FlowSubmitEmpty(f)
    \/ \E f \in Flows : FlowSubmitSelection(f)
    \/ \E f \in Flows : FlowConnectReturns(f)
    \/ \E f \in Flows : FlowConnectFails(f)
    \/ \E f \in Flows : FlowCreateEntry(f)

FlowSpec == FlowInit /\ [][FlowNext]_flowVars

\* ------------------------------------------------------------------ GatewayAvailabilityMixin
MaxEvents == 3         \* availability events delivered to the entity

\* The `available` property.
EntityAvailable(gw_available, dev_available) == gw_available /\ dev_available

\* _update_entity_availability: compare the new value with _attr_available and,
\* when they differ, store it and schedule a state update.
UpdateEntityAvailability(gw_available, dev_available, old_available) ==
    LET new_available == gw_available /\ dev_available
    IN  IF old_available # new_available
        THEN [attr_available |-> new_available, scheduled |-> TRUE]
        ELSE [attr_available |-> old_available, scheduled |-> FALSE]

\* The mixin's __init__ sets both flags; the entity's own __init__ then sets
\* _attr_available from the device (light.status == "online").
MixinInit ==
    /\ gateway_available = TRUE
    /\ device_available = TRUE
    /\ attr_available \in BOOLEAN
    /\ mixin_log = <<>>
    /\ ScanOff /\ SvcOff /\ SetupOff /\ FlowOff /\ OptOff

MixinEvent(source, available, scheduled) ==
    [source |-> source, value |-> available, scheduled |-> scheduled,
     before |-> EntityAvailable(gateway_available, device_available),
     after  |-> EntityAvailable(gateway_available', device_available')]

\* _handle_gateway_availability
HandleGatewayAvailability ==
    /\ Len(mixin_log) < MaxEvents
    /\ \E available \in BOOLEAN :
          LET upd == UpdateEntityAvailability(available, device_available, attr_available)
          IN  /\ gateway_available' = available
              /\ UNCHANGED device_available
              /\ attr_available' = upd.attr_available
              /\ mixin_log' = Append(mixin_log,
                                     MixinEvent("gateway", available, upd.scheduled))
    /\ UNCHANGED <<vars, svcVars, setupVars, flowVars, optVars>>

\* _handle_device_availability
HandleDeviceAvailability ==
    /\ Len(mixin_log) < MaxEvents
    /\ \E available \in BOOLEAN :
          LET upd == UpdateEntityAvailability(gateway_available, available, attr_available)
          IN  /\ device_available' = available
              /\ UNCHANGED gateway_available
              /\ attr_available' = upd.attr_available
              /\ mixin_log' = Append(mixin_log,
                                     MixinEvent("device", available, upd.scheduled))
    /\ UNCHANGED <<vars, svcVars, setupVars, flowVars, optVars>>

MixinNext ==
    \/ HandleGatewayAvailability
    \/ HandleDeviceAvailability

MixinSpec == MixinInit /\ [][MixinNext]_mixinVars

\* ------------------------------------------------------------------ options flow: batch configure
\* Bound on the rejected submissions of the batch form in one flow.
MaxRejected == 1

\* Ranges passed to _parse_int.
FadeMin == 0
FadeMax == 15
BrightnessMin == 10
BrightnessMax == 1000

\* runtime_data of the loaded entry: two lights, one sensor, and two groups,
\* one with a light among its members and one with none (a member without a
\* unique_id is the empty string).
RuntimeDevices ==
    { [dev_id |-> "L1", unique_id |-> "uL1", is_light |-> TRUE],
      [dev_id |-> "L2", unique_id |-> "uL2", is_light |-> TRUE],
      [dev_id |-> "S1", unique_id |-> "uS1", is_light |-> FALSE] }

RuntimeGroups ==
    { [unique_id |-> "G1", devices |-> {"uL1", "uS1"}],
      [unique_id |-> "G2", devices |-> {"uS1", ""}] }

LightDevices == {dev \in RuntimeDevices : dev.is_light}

\* Target ids "gateway:<sn>", "device:<dev_id>", "group:<unique_id>" as
\* (prefix, id) pairs.
GatewayTarget == [kind |-> "gateway", id |-> "GW1"]
DeviceTarget(dev) == [kind |-> "device", id |-> dev.dev_id]
GroupTarget(group) == [kind |-> "group", id |-> group.unique_id]

TargetOptions ==
    {GatewayTarget} \cup {DeviceTarget(dev) : dev \in LightDevices}
                    \cup {GroupTarget(group) : group \in RuntimeGroups}

\* The selections and raw field texts a user submits.
TargetChoices ==
    { {}, {GatewayTarget},
      {[kind |-> "device", id |-> "L1"]},
      {[kind |-> "group", id |-> "G1"]},
      {[kind |-> "group", id |-> "G2"]},
      {[kind |-> "device", id |-> "L2"], [kind |-> "group", id |-> "G1"]} }

FadeTimeRaw == {"", "abc", "7", "16"}
FadeRateRaw == {"", "3"}
MinBrightnessRaw == {"", "9", "500"}
MaxBrightnessRaw == {"", "1.5", "10", "1000", "1001"}

BatchInputs ==
    [ targets : TargetChoices, fade_time : FadeTimeRaw, fade_rate : FadeRateRaw,
      min_brightness : MinBrightnessRaw, max_brightness : MaxBrightnessRaw ]

\* int(raw) on the texts above: the value where Python parses one, no entry
\* where it raises ValueError.
IntLiterals ==
    ("7" :> 7) @@ ("16" :> 16) @@ ("3" :> 3) @@ ("9" :> 9) @@ ("500" :> 500)
    @@ ("10" :> 10) @@ ("1000" :> 1000) @@ ("1001" :> 1001)

ParamFields == {"fade_time", "fade_rate", "min_brightness", "max_brightness"}

ParseInt_NoRangeCheck(raw, min_value, max_value) ==
    IF raw = "" THEN [is_none |-> TRUE, value |-> 0, error |-> "none"]
    ELSE IF raw \notin DOMAIN IntLiterals
         THEN [is_none |-> TRUE, value |-> 0, error |-> "invalid_format"]
    ELSE [is_none |-> FALSE, value |-> IntLiterals[raw], error |-> "none"]

\* _parse_int: the value (or None) and the error it records for the field.
ParseInt(raw, min_value, max_value) ==
    IF raw = "" THEN [is_none |-> TRUE, value |-> 0, error |-> "none"]
    ELSE IF raw \notin DOMAIN IntLiterals
         THEN [is_none |-> TRUE, value |-> 0, error |-> "invalid_format"]
    ELSE IF ~(min_value <= IntLiterals[raw] /\ IntLiterals[raw] <= max_value)
         THEN [is_none |-> TRUE, value |-> 0, error |-> "out_of_range"]
    ELSE [is_none |-> FALSE, value |-> IntLiterals[raw], error |-> "none"]

\* errors[key] = value
SetError(errors, key, value) == (key :> value) @@ errors

\* The light devices the selected targets resolve to (lines 146-168).
ResolveTargets(selected_targets) ==
    LET by_gateway ==
            IF GatewayTarget \in selected_targets THEN LightDevices ELSE {}
        by_device ==
            {dev \in LightDevices : DeviceTarget(dev) \in selected_targets}
        by_group ==
            {dev \in LightDevices :
                \E group \in RuntimeGroups :
                    /\ GroupTarget(group) \in selected_targets
                    /\ \E member \in group.devices :
                          member # "" /\ member = dev.unique_id}
    IN  {dev.dev_id : dev \in by_gateway \cup by_device \cup by_group}

\* _validate_batch_input, one local operator per statement group, each
\* handing the errors and values built so far to the next.
ValidateBatchInput(user_input) ==
    LET \* lines 170-173
        Return(errors, params, target_devices) ==
            [ errors |-> IF DOMAIN errors = {} /\ target_devices = {}
                         THEN SetError(errors, "targets", "no_targets_available")
                         ELSE errors,
              params |-> params,
              devices |-> target_devices ]
        \* lines 144-168
        TargetDevices(errors, params) ==
            Return(errors, params,
                   IF DOMAIN errors = {}
                   THEN ResolveTargets(user_input.targets) ELSE {})
        \* lines 141-142
        NoTargetsSelected(errors, params) ==
            TargetDevices(IF user_input.targets = {}
                          THEN SetError(errors, "targets", "no_targets_selected")
                          ELSE errors,
                          params)
        \* lines 122-139
        BuildParams(parsed, errors) ==
            NoTargetsSelected(
                IF DOMAIN errors = {} /\ \A f \in ParamFields : parsed[f].is_none
                THEN SetError(errors, "base", "no_parameters_selected")
                ELSE errors,
                IF DOMAIN errors = {}
                THEN [f \in {g \in ParamFields : ~parsed[g].is_none}
                        |-> parsed[f].value]
                ELSE [f \in {} |-> 0])
        \* lines 113-120
        MinMaxConflict(parsed, errors) ==
            BuildParams(parsed,
                IF /\ "min_brightness" \notin DOMAIN errors
                   /\ "max_brightness" \notin DOMAIN errors
                   /\ ~parsed.min_brightness.is_none
                   /\ ~parsed.max_brightness.is_none
                   /\ parsed.min_brightness.value > parsed.max_brightness.value
                THEN SetError(errors, "max_brightness", "min_max_conflict")
                ELSE errors)
        \* errors as the four _parse_int calls leave it
        ParseErrors(parsed) ==
            MinMaxConflict(parsed,
                [f \in {g \in ParamFields : parsed[g].error # "none"}
                    |-> parsed[f].error])
    IN  \* lines 108-111
        ParseErrors(
            [ fade_time |-> ParseInt(user_input.fade_time, FadeMin, FadeMax),
              fade_rate |-> ParseInt(user_input.fade_rate, FadeMin, FadeMax),
              min_brightness |->
                  ParseInt(user_input.min_brightness, BrightnessMin, BrightnessMax),
              max_brightness |->
                  ParseInt(user_input.max_brightness, BrightnessMin, BrightnessMax) ])

\* async_step_batch_configure_result on the handler's fields: the step the
\* flow is at afterwards, the fields, and what it showed or sent.
\* raised: gateway.command_set_dev_params raised DaliGatewayError (caught).
BatchConfigureResult(pending, executed, message, has_input, raised) ==
    LET finish == [ step |-> "finished", pending |-> pending,
                    executed |-> executed, message |-> message,
                    events |-> <<[op |-> "entry"]>> ]
    IN  IF pending.is_none /\ ~message THEN finish
        ELSE IF ~executed
        THEN IF ~has_input
             THEN IF pending.is_none THEN finish
                  ELSE [ step |-> "batch_configure_result", pending |-> pending,
                         executed |-> executed, message |-> message,
                         events |-> <<[op |-> "preview",
                                       devices |-> pending.devices,
                                       params |-> pending.params]>> ]
             ELSE IF pending.is_none THEN finish
                  ELSE [ step |-> "finished", pending |-> NoPending,
                         executed |-> TRUE, message |-> TRUE,
                         events |-> <<[op |-> "command",
                                       devices |-> pending.devices,
                                       params |-> pending.params,
                                       raised |-> raised],
                                      [op |-> "entry"]>> ]
        ELSE IF has_input THEN finish
        ELSE [ step |-> "batch_configure_result", pending |-> pending,
               executed |-> executed, message |-> message,
               events |-> <<[op |-> "result"]>> ]

Rejections == Len(SelectSeq(opt_log, LAMBDA e : e.op = "rejected"))

\* The flow is opened on a loaded entry: async_step_init(None) shows the form.
OptInit ==
    /\ opt_step = "init"
    /\ pending_batch_config = NoPending
    /\ batch_config_executed = FALSE
    /\ batch_config_result_message = FALSE
    /\ opt_log = <<>>
    /\ ScanOff /\ SvcOff /\ SetupOff /\ FlowOff /\ MixinOff

\* async_step_init with the submitted choice; batch_configure enters
\* async_step_batch_configure(None), which resets the fields and shows the form.
StepInit ==
    /\ opt_step = "init"
    /\ \E choice \in {"empty", "refresh", "batch_configure", "neither"} :
          CASE choice = "empty" ->
                  UNCHANGED optVars
            [] choice = "refresh" ->
                  /\ opt_step' = "refresh"
                  /\ UNCHANGED <<pending_batch_config, batch_config_executed,
                                 batch_config_result_message, opt_log>>
            [] choice = "batch_configure" ->
                  /\ opt_step' = "batch_configure"
                  /\ pending_batch_config' = NoPending
                  /\ batch_config_executed' = FALSE
                  /\ batch_config_result_message' = FALSE
                  /\ UNCHANGED opt_log
            [] OTHER ->
                  /\ opt_step' = "finished"
                  /\ opt_log' = Append(opt_log, [op |-> "entry"])
                  /\ UNCHANGED <<pending_batch_config, batch_config_executed,
                                 batch_config_result_message>>
    /\ UNCHANGED <<vars, svcVars, setupVars, flowVars, mixinVars>>

\* async_step_batch_configure with a submitted form; an accepted input goes
\* on into async_step_batch_configure_result(None).
StepBatchConfigure ==
    /\ opt_step = "batch_configure"
    /\ \E user_input \in BatchInputs :
       \E v \in {ValidateBatchInput(user_input)} :
          IF DOMAIN v.errors = {}
          THEN \E r \in {BatchConfigureResult(
                            [ is_none |-> FALSE, devices |-> v.devices,
                              params |-> v.params ],
                            FALSE, FALSE, FALSE, FALSE)} :
                   /\ opt_step' = r.step
                   /\ pending_batch_config' = r.pending
                   /\ batch_config_executed' = r.executed
                   /\ batch_config_result_message' = r.message
                   /\ opt_log' = Append(opt_log, [op |-> "accepted",
                                                  input |-> user_input])
                                 \o r.events
          ELSE /\ Rejections < MaxRejected
               /\ opt_step' = "batch_configure"
               /\ pending_batch_config' = NoPending
               /\ batch_config_executed' = FALSE
               /\ batch_config_result_message' = FALSE
               /\ opt_log' = Append(opt_log, [op |-> "rejected",
                                              errors |-> v.errors])
    /\ UNCHANGED <<vars, svcVars, setupVars, flowVars, mixinVars>>

\* async_step_batch_configure_result with the submitted (empty) preview form.
StepBatchConfigureResult ==
    /\ opt_step = "batch_configure_result"
    /\ \E raised \in BOOLEAN :
          LET r == BatchConfigureResult(pending_batch_config,
                                        batch_config_executed,
                                        batch_config_result_message,
                                        TRUE, raised)
          IN  /\ opt_step' = r.step
              /\ pending_batch_config' = r.pending
              /\ batch_config_executed' = r.executed
              /\ batch_config_result_message' = r.message
              /\ opt_log' = Append(opt_log, [op |-> "confirm"]) \o r.events
    /\ UNCHANGED <<vars, svcVars, setupVars, flowVars, mixinVars>>

OptNext ==
    \/ StepInit
    \/ StepBatchConfigure
    \/ StepBatchConfigureResult

OptSpec == OptInit /\ [][OptNext]_optVars

\* ------------------------------------------------------------------ observations
Ops(t) == [i \in DOMAIN log[t] |-> log[t][i].op]

OpsIn(t, S) == SelectSeq(Ops(t), LAMBDA op : op \in S)

EventsIn(t, S) == SelectSeq(log[t], LAMBDA e : e.op \in S)

ScanStateOps(t) == OpsIn(t, {"scan_state_true", "scan_state_false"})

ResultNotifications(t) == OpsIn(t, {"notify_complete", "notify_timeout"})

MutationOps == {"add_entities", "reg_remove"}

Succeeded(t) == pc[t] = "done" /\ run[t].outcome = "ok"

Failed(t) == pc[t] = "done" /\ run[t].exc # "none"

KeepIds(devs, S) == SelectSeq(devs, LAMBDA dev : dev.dev_id \in S)

\* ------------------------------------------------------------------ claims

\* C1: after a successful reconciliation the dev_ids of the device list are
\* exactly the dev_ids the scan returned; new = scanned - existing and
\* removed = existing - scanned are disjoint and (existing - removed) + new
\* = scanned.
C1_MembershipEqualsScan ==
    \A t \in ScanTaskSet :
        Succeeded(t) =>
            LET scanned  == Ids(run[t].scan_result)
                existing == Ids(run[t].existing)
                new      == NewDeviceIds(run[t].scan_result, run[t].existing)
                removed  == RemovedDeviceIds(run[t].scan_result, run[t].existing)
            IN  /\ Ids(run[t].after) = scanned
                /\ new = scanned \ existing
                /\ removed = existing \ scanned
                /\ new \cap removed = {}
                /\ (existing \ removed) \cup new = scanned

C1_Witness ==
    \E t \in ScanTaskSet :
        /\ Succeeded(t)
        /\ NewDeviceIds(run[t].scan_result, run[t].existing) # {}
        /\ RemovedDeviceIds(run[t].scan_result, run[t].existing) # {}
        /\ Ids(run[t].scan_result) \cap Ids(run[t].existing) # {}

\* C2: when the scan call times out or raises another error, the device list
\* after the routine is the same sequence of the same records as before, no
\* add-entities signal is sent and no registry entry is removed.
C2_NoMutationOnFailure ==
    \A t \in ScanTaskSet :
        Failed(t) =>
            /\ run[t].after = run[t].existing
            /\ run[t].reg_after = run[t].reg_before
            /\ OpsIn(t, MutationOps) = <<>>

C2_Witness ==
    \E t, u \in ScanTaskSet :
        /\ Failed(t) /\ run[t].exc = "TimeoutError"
        /\ Failed(u) /\ run[u].exc = "RuntimeError"
        /\ run[t].existing # <<>> /\ run[t].reg_before # {}
        /\ run[u].existing # <<>> /\ run[u].reg_before # {}

\* C3: every invocation broadcasts exactly [True, False] on the scan-state
\* channel: True once, before the scan call, and False once, after it.
C3_ScanStatePairs ==
    \A t \in ScanTaskSet :
        /\ pc[t] = "idle" => ScanStateOps(t) = <<>>
        /\ pc[t] = "awaiting" =>
              /\ ScanStateOps(t) = <<"scan_state_true">>
              /\ OpsIn(t, {"scan_state_true", "scan_bus"})
                    = <<"scan_state_true", "scan_bus">>
        /\ pc[t] = "done" =>
              OpsIn(t, {"scan_state_true", "scan_bus", "scan_state_false"})
                 = <<"scan_state_true", "scan_bus", "scan_state_false">>

C3_Witness ==
    \E t, u \in ScanTaskSet :
        /\ Succeeded(t)
        /\ Failed(u)
        /\ ScanStateOps(t) = <<"scan_state_true", "scan_state_false">>
        /\ ScanStateOps(u) = <<"scan_state_true", "scan_state_false">>

\* C4: whenever an invocation has broadcast scanning = True, scanning = False
\* is eventually broadcast by it, whatever the outcome of the scan call.
C4_ScanningEventuallyFalse ==
    \A t \in ScanTaskSet :
        (ScanStateOps(t) = <<"scan_state_true">>)
            ~> (ScanStateOps(t) = <<"scan_state_true", "scan_state_false">>)

C4_Witness ==
    \E t \in ScanTaskSet :
        /\ Failed(t) /\ run[t].exc = "DaliGatewayError"
        /\ ScanStateOps(t) = <<"scan_state_true", "scan_state_false">>

\* C5 (as stated): every terminal state of a reconciliation, success, timeout
\* or other failure, has created exactly one result notification.
C5_OneResultNotificationAlways ==
    \A t \in ScanTaskSet :
        pc[t] = "done" => Len(ResultNotifications(t)) = 1

\* C5 (amended): a success creates exactly one "scan complete" notification, a
\* timeout exactly one "timed out" notification, neither dismisses; any other
\* failure creates no result notification and dismisses the "scanning" one once.
C5_ResultNotificationPerOutcome ==
    \A t \in ScanTaskSet :
        /\ pc[t] # "done" => ResultNotifications(t) = <<>> /\ OpsIn(t, {"dismiss"}) = <<>>
        /\ Succeeded(t) =>
              /\ ResultNotifications(t) = <<"notify_complete">>
              /\ OpsIn(t, {"dismiss"}) = <<>>
        /\ (Failed(t) /\ run[t].exc = "TimeoutError") =>
              /\ ResultNotifications(t) = <<"notify_timeout">>
              /\ OpsIn(t, {"dismiss"}) = <<>>
        /\ (Failed(t) /\ run[t].exc # "TimeoutError") =>
              /\ ResultNotifications(t) = <<>>
              /\ OpsIn(t, {"dismiss"}) = <<"dismiss">>

C5_Witness ==
    \E t, u \in ScanTaskSet :
        /\ Failed(t) /\ run[t].exc = "TimeoutError"
        /\ Failed(u) /\ run[u].exc = "DaliGatewayError"
        /\ ResultNotifications(t) = <<"notify_timeout">>
        /\ ResultNotifications(u) = <<>>

\* C6: for every outcome of the scan call (a result, a timeout, any other
\* error) the routine returns normally; no exception leaves it.
C6_NoExceptionPropagates ==
    \A t \in ScanTaskSet :
        pc[t] = "done" => run[t].exit = "returned"

C6_Witness ==
    \E t, u \in ScanTaskSet :
        /\ Failed(t) /\ run[t].exc = "RuntimeError" /\ run[t].exit = "returned"
        /\ Succeeded(u) /\ run[u].exit = "returned"

\* C7: at most one scan is active per gateway: never are two reconciliations
\* both awaiting the gateway's scan call.
C7_AtMostOneScanActive ==
    Cardinality({t \in ScanTaskSet : pc[t] = "awaiting"}) <= 1

\* C8: from the start of the routine until the scan call has returned, the
\* routine changes neither the device list nor the registry and sends nothing
\* on the add-entities channel.
C8_NoPartialUpdate ==
    /\ [](\A t \in ScanTaskSet :
             pc[t] \in {"idle", "awaiting"} => OpsIn(t, MutationOps) = <<>>)
    /\ [][\A t \in ScanTaskSet :
             (pc[t] = "idle" /\ pc'[t] = "awaiting")
                => (devices' = devices /\ registry' = registry)]_vars

C8_Witness ==
    \E t \in ScanTaskSet :
        /\ pc[t] = "awaiting"
        /\ Len(devices) = 2
        /\ registry # {}
        /\ NotificationAt(notifications, ScanNotificationId(GwSn)).kind = "scanning"

\* C9: for duplicate-free existing and scanned device lists the completion
\* notification reports added = |scanned - existing|, removed = |existing -
\* scanned| and unchanged = |scanned /\ existing|.
C9_CompletionCounts ==
    \A t \in ScanTaskSet :
        (Succeeded(t) /\ NoDup(run[t].scan_result) /\ NoDup(run[t].existing)) =>
            LET scanned  == Ids(run[t].scan_result)
                existing == Ids(run[t].existing)
            IN  EventsIn(t, {"notify_complete"}) =
                   << Ev("notify_complete", <<>>,
                         << Cardinality(scanned \ existing),
                            Cardinality(existing \ scanned),
                            Cardinality(scanned \cap existing) >>) >>

\* existing {A, B}, scanned {A, C}: "1 added, 1 removed, 1 unchanged".
C9_Witness ==
    \E t \in ScanTaskSet :
        /\ Succeeded(t)
        /\ Ids(run[t].existing) = {"A", "B"} /\ NoDup(run[t].existing)
        /\ Ids(run[t].scan_result) = {"A", "C"} /\ NoDup(run[t].scan_result)
        /\ Last(log[t]) = Ev("notify_complete", <<>>, <<1, 1, 1>>)

\* C10: after a successful reconciliation the list is the prior list without
\* the removed devices, the survivors in their prior order and as their prior
\* records, followed by the new devices in scan order.
C10_OrderAndIdentity ==
    \A t \in ScanTaskSet :
        Succeeded(t) =>
            run[t].after =
                KeepIds(run[t].existing, Ids(run[t].scan_result))
                \o KeepIds(run[t].scan_result, DevIds \ Ids(run[t].existing))

C10_Witness ==
    \E t \in ScanTaskSet :
        /\ Succeeded(t)
        /\ Len(run[t].existing) = 2
        /\ Len(run[t].after) = 2
        /\ run[t].after[1] = run[t].existing[1]
        /\ run[t].after[1].dev_id \in Ids(run[t].scan_result)
        /\ run[t].after[1] # run[t].scan_result[2]
        /\ run[t].after[1].dev_id = run[t].scan_result[2].dev_id
        /\ run[t].after[2] = run[t].scan_result[1]
        /\ run[t].existing[2].dev_id \notin Ids(run[t].after)

\* C11: a successful reconciliation sends the add-entities signal exactly once,
\* carrying exactly the scanned devices whose dev_id was not in the list, when
\* there is at least one such device; it sends none when no device is new, and
\* a failed one sends none.
C11_AddEntitiesOnceWithNewDevices ==
    \A t \in ScanTaskSet :
        LET sent == EventsIn(t, {"add_entities"})
            new  == KeepIds(run[t].scan_result,
                            Ids(run[t].scan_result) \ Ids(run[t].existing))
        IN  /\ Succeeded(t) =>
                  sent = IF new # <<>> THEN <<Ev("add_entities", new, <<>>)>> ELSE <<>>
            /\ ~Succeeded(t) => sent = <<>>

C11_Witness ==
    \E t, u \in ScanTaskSet :
        /\ Succeeded(t)
        /\ Len(EventsIn(t, {"add_entities"})) = 1
        /\ Succeeded(u)
        /\ run[u].existing # <<>>
        /\ Ids(run[u].existing) = Ids(run[u].scan_result)
        /\ EventsIn(u, {"add_entities"}) = <<>>

\* C12: the registry entries deleted by a successful reconciliation are those
\* of the dev_ids in existing - scanned that had an entry, each deleted by one
\* call; a removed device without an entry causes no call; no entry of a
\* scanned dev_id is deleted.
C12_RegistryDeletionForRemoved ==
    \A t \in ScanTaskSet :
        LET calls   == EventsIn(t, {"reg_remove"})
            called  == [i \in DOMAIN calls |-> calls[i].devs[1].dev_id]
            removed == Ids(run[t].existing) \ Ids(run[t].scan_result)
        IN  /\ Succeeded(t) =>
                  /\ {called[i] : i \in DOMAIN called} = removed \cap run[t].reg_before
                  /\ \A i, j \in DOMAIN called : called[i] = called[j] => i = j
                  /\ \A i \in DOMAIN called : called[i] \notin Ids(run[t].scan_result)
                  /\ run[t].reg_after = run[t].reg_before \ removed
            /\ ~Succeeded(t) => calls = <<>>

C12_Witness ==
    \E t, u \in ScanTaskSet :
        /\ Succeeded(t)
        /\ (Ids(run[t].existing) \ Ids(run[t].scan_result)) \ run[t].reg_before # {}
        /\ Ids(run[t].scan_result) \cap run[t].reg_before # {}
        /\ Succeeded(u)
        /\ Len(EventsIn(u, {"reg_remove"})) = 1

\* C13: _remove_devices called again with the devices a reconciliation has
\* just removed leaves the device list as it is, and called with a device that
\* is not in the list leaves the list as it is.
AllDevices == {Device(id, obj) : id \in DevIds, obj \in 0..Len(ScanTasks)}

InList(list, dev) == \E i \in DOMAIN list : list[i] = dev

C13_RemovalIdempotent ==
    /\ \A t \in ScanTaskSet :
          Succeeded(t) =>
              LET removed_devices == RemovedDevices(run[t].scan_result, run[t].existing)
              IN  /\ \A i \in DOMAIN removed_devices :
                        ~InList(run[t].after, removed_devices[i])
                  /\ RemoveDevices(run[t].after, run[t].reg_after,
                                   removed_devices).devices = run[t].after
    /\ \A dev \in AllDevices :
          ~InList(devices, dev) =>
              RemoveDevices(devices, registry, <<dev>>).devices = devices

C13_Witness ==
    \E t \in ScanTaskSet :
        /\ Succeeded(t)
        /\ RemovedDevices(run[t].scan_result, run[t].existing) # <<>>
        /\ run[t].after # <<>>
        /\ devices = run[t].after

\* C14: an invocation whose scan call timed out has created, after the
\* "scanning" notification, exactly one "timed out" notification and no "scan
\* complete" one, and when it ends the "timed out" notification is what is
\* shown under the gateway's scan notification id.
NotificationOps == {"notify_scanning", "notify_timeout", "notify_complete", "dismiss"}

C14_TimeoutNotification ==
    \A t \in ScanTaskSet :
        (pc[t] = "done" /\ run[t].outcome = "timeout") =>
            /\ OpsIn(t, NotificationOps) = <<"notify_scanning", "notify_timeout">>
            /\ DOMAIN run[t].notes_after = {ScanNotificationId(GwSn)}
            /\ run[t].notes_after[ScanNotificationId(GwSn)] = Notification("timeout", <<>>)

C14_Witness ==
    \E t \in ScanTaskSet :
        /\ pc[t] = "done"
        /\ run[t].exc = "TimeoutError"
        /\ NotificationAt(notifications, ScanNotificationId(GwSn)).kind = "timeout"

\* C15: an invocation whose scan call raised an error other than a timeout has
\* dismissed the notification once and created none after the "scanning" one,
\* and when it ends nothing is shown under the gateway's scan notification id.
C15_ErrorDismissesNotification ==
    \A t \in ScanTaskSet :
        (pc[t] = "done" /\ run[t].outcome = "generic") =>
            /\ OpsIn(t, NotificationOps) = <<"notify_scanning", "dismiss">>
            /\ ScanNotificationId(GwSn) \notin DOMAIN run[t].notes_after

C15_Witness ==
    \E t, u \in ScanTaskSet :
        /\ pc[t] = "done" /\ run[t].exc = "DaliGatewayError"
        /\ pc[u] = "done" /\ run[u].exc = "RuntimeError"
        /\ DOMAIN notifications = {}

\* C16: the reconciliation and the stop routine use one notification id per
\* gateway: the store never holds a notification under another id, so at most
\* one scan notification exists; an invocation's "scanning" notification
\* leaves exactly that one notification in the store, and the stop routine's
\* dismissal leaves none.
C16_SingleNotificationId ==
    /\ [](/\ StopNotificationId(GwSn) = ScanNotificationId(GwSn)
          /\ DOMAIN notifications \subseteq {ScanNotificationId(GwSn)})
    /\ [][/\ \A t \in ScanTaskSet :
                (pc[t] = "idle" /\ pc'[t] = "awaiting") =>
                    /\ DOMAIN notifications' = {ScanNotificationId(GwSn)}
                    /\ notifications'[ScanNotificationId(GwSn)]
                          = Notification("scanning", <<>>)
          /\ \A s \in StopTaskSet :
                (pc[s] = "stopping" /\ pc'[s] = "done") => DOMAIN notifications' = {}]_vars

C16_Witness ==
    /\ \A t \in ScanTaskSet : pc[t] = "awaiting"
    /\ \E s \in StopTaskSet : pc[s] = "done" /\ log[s] # <<>>
    /\ Cardinality(DOMAIN notifications) = 1

\* C17: the stop routine calls the gateway's stop operation exactly when
\* bus_scanning is true at its start, and then, after that call, dismisses the
\* notification; when bus_scanning is false it ends at once with no call made
\* and the notifications as they were.
OpsOf(events) == [i \in DOMAIN events |-> events[i].op]

C18_StopLeavesScanState ==
    /\ [](\A s \in StopTaskSet :
             OpsIn(s, {"scan_state_true", "scan_state_false"} \cup MutationOps) = <<>>)
    /\ [][\A s \in StopTaskSet :
             pc'[s] # pc[s] =>
                 /\ devices' = devices
                 /\ registry' = registry
                 /\ scan_btn' = scan_btn
                 /\ stop_btn' = stop_btn]_vars

C18_Witness ==
    \E s \in StopTaskSet, t \in ScanTaskSet :
        /\ pc[s] = "done"
        /\ Ops(s) = <<"stop_scan", "dismiss">>
        /\ pc[t] = "done"
        /\ ScanStateOps(t) = <<"scan_state_true", "scan_state_false">>
        /\ devices # <<>>
        /\ registry # {}

\* C19: when the stop operation has been called and the scan call of an
\* awaiting reconciliation then returns, that step applies the diff against
\* the returned result, whatever it holds: the list's dev_ids become the
\* result's, the devices absent from it leave the list and the registry, the
\* "scan complete" notification is created last and scanning = False is
\* broadcast.
StopIssued == \E s \in StopTaskSet : \E i \in DOMAIN log[s] : log[s][i].op = "stop_scan"

C20_ButtonAvailability ==
    /\ ScanBusAvailable(bus_scanning) = ~bus_scanning
    /\ StopScanAvailable(bus_scanning) = bus_scanning
    /\ ScanBusAvailable(bus_scanning) # StopScanAvailable(bus_scanning)

C20_Witness ==
    /\ bus_scanning
    /\ StopScanAvailable(bus_scanning)
    /\ ~ScanBusAvailable(bus_scanning)
    /\ \E t \in ScanTaskSet : pc[t] = "done"

\* C21: a service call invokes the routine for exactly the given ids that name
\* a registry device with a config entry of this domain, in the given order,
\* with that entry; every other id only gets a warning and the loop goes on;
\* a routine is called only when the one before it has returned.
Resolves(device_id) ==
    /\ device_id \in DOMAIN DeviceRegistry
    /\ \E i \in DOMAIN DeviceRegistry[device_id] :
          LET e == DeviceRegistry[device_id][i]
          IN  e \in DOMAIN ConfigEntryDomains /\ ConfigEntryDomains[e] = Domain

SvcDeviceIdsOf(events) == [i \in DOMAIN events |-> events[i].device_id]

C21_ServiceResolvesEachId ==
    LET device_ids == CallDeviceIds(svc_call)
        reached    == SubSeq(device_ids, 1,
                             IF svc_pc = "in_routine" THEN svc_i + 1 ELSE svc_i)
        calls      == SelectSeq(svc_log, LAMBDA e : e.op = "call")
        warnings   == SelectSeq(svc_log, LAMBDA e : e.op = "warning")
    IN  /\ SvcDeviceIdsOf(calls) = SelectSeq(reached, Resolves)
        /\ SvcDeviceIdsOf(warnings) = SelectSeq(reached, LAMBDA d : ~Resolves(d))
        /\ \A i \in DOMAIN calls :
              /\ calls[i].routine = RoutineOf(svc_call.service)
              /\ calls[i].entry \in DOMAIN ConfigEntryDomains
              /\ ConfigEntryDomains[calls[i].entry] = Domain
              /\ \E k \in DOMAIN DeviceRegistry[calls[i].device_id] :
                    DeviceRegistry[calls[i].device_id][k] = calls[i].entry
        /\ \A i \in DOMAIN svc_log :
              svc_log[i].op = "call" =>
                  IF i = Len(svc_log)
                  THEN svc_pc = "in_routine"
                  ELSE svc_log[i + 1] = [svc_log[i] EXCEPT !.op = "returned"]
        /\ svc_pc = "done" => svc_i = Len(device_ids)

C21_Witness ==
    LET device_ids == CallDeviceIds(svc_call)
    IN  /\ svc_pc = "done"
        /\ Len(device_ids) = 3
        /\ Resolves(device_ids[1])
        /\ ~Resolves(device_ids[2])
        /\ Resolves(device_ids[3])
        /\ Len(SelectSeq(svc_log, LAMBDA e : e.op = "returned")) = 2

\* C22 (as stated): in a successful reconciliation the scanning = False
\* broadcast is the last call made, after the add-entities signal, the
\* registry removals and the completion notification.
C22_ScanStateFalseLast ==
    \A t \in ScanTaskSet : Succeeded(t) => Last(Ops(t)) = "scan_state_false"

\* C22 (amended): in a successful reconciliation the calls are made in the
\* order: "scanning" notification, scanning = True, scan call, scanning = False,
\* add-entities signal (if any), registry removals (if any), completion
\* notification.
C22_StepOrder ==
    \A t \in ScanTaskSet :
        Succeeded(t) =>
            LET ops == Ops(t)
                n   == Len(ops)
            IN  /\ n >= 5
                /\ SubSeq(ops, 1, 4) = <<"notify_scanning", "scan_state_true",
                                         "scan_bus", "scan_state_false">>
                /\ ops[n] = "notify_complete"
                /\ \A i \in 5..(n - 1) : ops[i] \in MutationOps
                /\ \A i, j \in 5..(n - 1) :
                      (ops[i] = "reg_remove" /\ i < j) => ops[j] = "reg_remove"

C22_Witness ==
    \E t \in ScanTaskSet :
        /\ Succeeded(t)
        /\ OpsIn(t, MutationOps) = <<"add_entities", "reg_remove">>

\* C23 (as stated): while one reconciliation is in progress and none has
\* ended, i.e. after the buttons have handled its scanning = True broadcast
\* and before any scanning = False broadcast, the state last written for the
\* Scan Bus button is unavailable and the one for the Stop Scan button is
\* available.
C23_WrittenStatesDuringScan ==
    (/\ \E t \in ScanTaskSet : pc[t] = "awaiting"
     /\ \A t \in ScanTaskSet : pc[t] \in {"idle", "awaiting"})
        => (~scan_btn /\ stop_btn)

\* C28: with a duplicate-free initial list and duplicate-free scan results no
\* dev_id is ever in the device list twice, under every interleaving of the
\* reconciliations; every scan call that returns leaves the list with exactly
\* the dev_ids of its result and every one that raises leaves the list as it
\* is, so the final membership is that of the call that returned last.
C28_AtomicDiff ==
    /\ []((\A t \in ScanTaskSet : Succeeded(t) => NoDup(run[t].scan_result))
             => NoDup(devices))
    /\ [][\A t \in ScanTaskSet :
             (pc[t] = "awaiting" /\ pc'[t] = "done") =>
                 IF run'[t].outcome = "ok"
                 THEN /\ run'[t].existing = devices
                      /\ Ids(devices') = Ids(run'[t].scan_result)
                 ELSE devices' = devices]_vars

C28_Witness ==
    /\ \A t \in ScanTaskSet : Succeeded(t) /\ NoDup(run[t].scan_result)
    /\ run[ScanTasks[1]].existing = run[ScanTasks[2]].after
    /\ run[ScanTasks[2]].after # run[ScanTasks[2]].existing
    /\ devices = run[ScanTasks[1]].after
    /\ devices # run[ScanTasks[1]].existing
    /\ Len(devices) >= 2

\* C29 (as stated): when a reconciliation that succeeded or timed out and a
\* stop routine have both finished (no other reconciliation started), the
\* reconciliation's terminal notification is what is shown under the
\* gateway's scan notification id.
C29_TerminalNotificationKept ==
    (/\ pc[ScanTasks[1]] = "done"
     /\ run[ScanTasks[1]].outcome \in {"ok", "timeout"}
     /\ pc[ScanTasks[2]] = "idle"
     /\ \A s \in StopTaskSet : pc[s] = "done")
        => NotificationAt(notifications, ScanNotificationId(GwSn)).kind
              \in {"complete", "timeout"}

\* C24: at most 2 setups are inside the section guarded by _SETUP_SEMAPHORE;
\* the permits are conserved (free + held = 2) whatever way a setup leaves the
\* section, so that when no setup is inside or queued both are free; and a
\* queued setup eventually enters the section.
InSection(e) == setup[e].pc \in {"connecting", "discovering", "disconnecting"}

Granted(e) == \E i \in DOMAIN sem.waiters : sem.waiters[i] = [entry |-> e, done |-> TRUE]

C24_SetupSemaphore ==
    /\ [](/\ Cardinality({e \in SetupEntries : InSection(e)}) <= SetupPermits
          /\ sem.value + Cardinality({e \in SetupEntries : InSection(e) \/ Granted(e)})
                = SetupPermits
          /\ (\A e \in SetupEntries : setup[e].pc \in {"idle", "forwarding", "loaded", "failed"})
                => sem = [value |-> SetupPermits, waiters |-> <<>>])
    /\ \A e \in SetupEntries : (setup[e].pc = "waiting") ~> InSection(e)

C24_Witness ==
    /\ \E e \in SetupEntries : setup[e].pc = "connecting" /\ setup[e].notes = <<>>
    /\ \E e \in SetupEntries : setup[e].pc = "failed" /\ setup[e].failed_at = "connect"
    /\ \E e \in SetupEntries : setup[e].pc = "failed" /\ setup[e].failed_at = "discover"
    /\ sem.value = 1

\* C25 (as stated): a setup that failed because connect raised a gateway
\* error or timed out, or because discovery raised a gateway error, has
\* created one notification and raised ConfigEntryNotReady, has set no
\* runtime_data, registered no gateway device, forwarded no platform and
\* registered no service, and after a discovery failure is disconnected.
C25_FailedSetupLeavesNothing ==
    \A e \in SetupEntries :
        (/\ setup[e].pc = "failed"
         /\ SetupExceptClause(setup[e].failed_at, setup[e].exc) # "none") =>
            /\ Len(setup[e].notes) = 1
            /\ setup[e].raised = "ConfigEntryNotReady"
            /\ ~setup[e].runtime_data
            /\ ~setup[e].gw_device
            /\ ~setup[e].forwarded
            /\ (\A o \in SetupEntries : setup[o].pc # "loaded") => ~services
            /\ setup[e].failed_at = "discover" => ~setup[e].connected

\* C26 (as stated): whatever the config flows do, no two config entries of the
\* domain carry the same gateway serial number.
C26_NoTwoEntriesForOneGateway ==
    \A i, j \in DOMAIN config_entries :
        config_entries[i] = config_entries[j] => i = j

\* C27 (as stated): the entity's `available` is the conjunction of the two
\* flags, and an availability event has scheduled a state update exactly when
\* it changed the value of `available`.
C27_UpdateExactlyOnChange ==
    /\ EntityAvailable(gateway_available, device_available)
          = (gateway_available /\ device_available)
    /\ \A i \in DOMAIN mixin_log :
          mixin_log[i].scheduled = (mixin_log[i].before # mixin_log[i].after)

\* ------------------------------------------------------------------ C30
\* What the claim lists as a validation error of a submitted batch form.
FieldInvalid(raw, lo, hi) ==
    raw # "" /\ (raw \notin DOMAIN IntLiterals
                 \/ IntLiterals[raw] < lo \/ IntLiterals[raw] > hi)

InputInvalid(input) ==
    \/ FieldInvalid(input.fade_time, FadeMin, FadeMax)
    \/ FieldInvalid(input.fade_rate, FadeMin, FadeMax)
    \/ FieldInvalid(input.min_brightness, BrightnessMin, BrightnessMax)
    \/ FieldInvalid(input.max_brightness, BrightnessMin, BrightnessMax)
    \/ /\ input.min_brightness \in DOMAIN IntLiterals
       /\ input.max_brightness \in DOMAIN IntLiterals
       /\ IntLiterals[input.min_brightness] > IntLiterals[input.max_brightness]
    \/ \A f \in ParamFields : input[f] = ""
    \/ input.targets = {}
    \/ ResolveTargets(input.targets) = {}

\* C30: command_set_dev_params is sent only directly after a confirmation that
\* follows the preview of an accepted input, with that preview's devices and
\* parameters, and never twice; every accepted input is free of the listed
\* validation errors; and after a rejected input no pending configuration is
\* stored.
C30_CommandOnlyAfterConfirmedPreview ==
    /\ \A i \in DOMAIN opt_log :
          opt_log[i].op = "command" =>
              /\ i >= 4
              /\ opt_log[i - 1].op = "confirm"
              /\ opt_log[i - 2].op = "preview"
              /\ opt_log[i - 3].op = "accepted"
              /\ opt_log[i].devices = opt_log[i - 2].devices
              /\ opt_log[i].params = opt_log[i - 2].params
              /\ opt_log[i].devices = ResolveTargets(opt_log[i - 3].input.targets)
              /\ \A j \in DOMAIN opt_log : opt_log[j].op = "command" => j = i
    /\ \A i \in DOMAIN opt_log :
          opt_log[i].op = "accepted" => ~InputInvalid(opt_log[i].input)
    /\ \A i \in DOMAIN opt_log :
          opt_log[i].op = "preview" => i > 1 /\ opt_log[i - 1].op = "accepted"
    /\ (opt_log # <<>> /\ opt_log[Len(opt_log)].op = "rejected") =>
          pending_batch_config = NoPending
    /\ ~pending_batch_config.is_none => opt_step = "batch_configure_result"

\* A command was sent in a flow that had rejected an input before.
C30_Witness ==
    \E i, j \in DOMAIN opt_log :
        /\ j < i
        /\ opt_log[j].op = "rejected"
        /\ opt_log[i].op = "command"

====
